---- MODULE Spec2Model ----
(***************************************************************************)
(* A model of the Slack RAG bot of rag/api/views.py: the slack_events      *)
(* endpoint with its event-id dedup cache, and handle_app_mention with its *)
(* file-ingestion, URL-ingestion and query routes; and of                  *)
(* DocumentService.chunk_text of rag/services/document_service.py.         *)
(*                                                                         *)
(* Strings are modelled as sequences of atoms, each atom standing for one  *)
(* fixed substring:                                                        *)
(*   "H"  = "http://"        "I"  = "import rag"   "IU" = "Import RAG"     *)
(*   "M"  = "<@U1>"          "w"  = a word character                       *)
(*   " "  = a blank          ","  = ","            ">"  = ">"              *)
(*   "import", "rag" = the two words of "import rag", which the URL        *)
(*   scanner separates when the blank between them ends a match.           *)
(***************************************************************************)
EXTENDS Integers, Sequences, FiniteSets, TLC

VARIABLES
    processed_events,  \* keys of slack_events.processed_events, insertion order
    seen,              \* history: the event ids 1..seen have reached the dedup step
    pc,                \* position of the (sequential) server
    req,               \* the request being served, or the last one served
    resp,              \* [status, verdict] of the request in req
    i,                 \* loop index of the per-file / per-URL loop
    urls,              \* clean_urls of handle_app_mention
    cur,               \* locals of the item being ingested / of the query
    calls,             \* collaborator calls made while serving req, in order
    index,             \* the search index: doc id -> document
    wpc,               \* concurrent model: position of each worker
    wreq,              \* concurrent model: the event id each worker serves
    handled,           \* concurrent model: handle_app_mention calls per worker;
                       \* redelivery model: how the first delivery of each id ended
    chunker            \* a call of DocumentService.chunk_text: arguments and locals

vars == <<processed_events, seen, pc, req, resp, i, urls, cur, calls, index,
          wpc, wreq, handled, chunker>>

(***************************************************************************)
(* Bounds of the model and constants of the program.                       *)
(***************************************************************************)
MaxProcessed == 1000   \* views.py:131, the cap of processed_events
ExtraIds == 2          \* distinct event ids delivered beyond MaxProcessed
ProbeIds == 2          \* the oldest ids that may be redelivered
MaxFiles == 2          \* attachments of one event
MaxText == 3           \* atoms of a message text over the whole alphabet
MaxUrlText == 5        \* atoms of a message text over the URL alphabet
NumWorkers == 2        \* requests served concurrently
ExtraChars == 4        \* content lengths up to this far from 1 and from the limit
MaxTokens == 8000      \* openai_service.py:50, max_tokens
CharsPerToken == 4     \* openai_service.py:51, characters per token
MaxChunkText == 5      \* longest text given to chunk_text
MaxChunkSize == 2      \* largest chunk_size
MaxOverlap == 3        \* largest overlap
MaxEvents == 2         \* events of the re-ingestion model

NoneVal == "None"      \* Python's None

Range(s) == {s[k] : k \in 1..Len(s)}

SeqsUpTo(S, n) == UNION {[1..k -> S] : k \in 0..n}

(***************************************************************************)
(* Requests.  An event id is a positive number; 0 stands for a payload     *)
(* with no "event_id" key (None) and -1 for an empty string, both falsy.   *)
(* Distinct ids are handed out in increasing order (their names carry no   *)
(* meaning), so the ids that have reached the dedup step are 1..seen.      *)
(***************************************************************************)
MaxIds == MaxProcessed + ExtraIds

NoEventId == {0, -1}

FreshIds == IF seen < MaxIds THEN {seen + 1} ELSE {}

RedeliveredIds == {k \in 1..seen : k <= ProbeIds \/ k = seen}

Payload(sig, json, type, id, etype, ev) ==
    [sig_ok |-> sig, json_ok |-> json, type |-> type, event_id |-> id,
     event_type |-> etype, event |-> ev]

NoEvent == [files |-> <<>>, text |-> <<>>]

MentionOnly == [files |-> <<>>, text |-> <<"M">>]

NoRequest == Payload(TRUE, TRUE, "none", 0, "none", NoEvent)

NoResp == [status |-> 0, verdict |-> "none"]

NoCur == [loop |-> "none", file_type |-> "", content |-> NoneVal,
          source |-> <<>>, doc_type |-> "", doc_id |-> <<>>,
          embedding |-> NoneVal, parse |-> "", ret |-> "none",
          question |-> <<>>, results |-> 0]

(* No call of chunk_text: handle_app_mention does not chunk. *)
NoChunker == [text |-> <<>>, chunk_size |-> 0, overlap |-> 0, start |-> 0,
              chunks |-> <<>>, spans |-> <<>>, pc |-> "none"]

(* The payloads of the dedup model: every kind of request, the event of an *)
(* app_mention being a bare mention.                                       *)
DedupPayloads ==
    LET ids == FreshIds \cup RedeliveredIds \cup NoEventId
        early == FreshIds \cup {0}
    IN  {Payload(TRUE, TRUE, "event_callback", id, et, MentionOnly) :
            id \in ids, et \in {"app_mention", "message"}}
        \cup {Payload(FALSE, TRUE, "event_callback", id, "app_mention", MentionOnly) :
            id \in early}
        \cup {Payload(TRUE, FALSE, "none", id, "none", NoEvent) : id \in {0}}
        \cup {Payload(TRUE, TRUE, t, id, "none", NoEvent) :
            t \in {"url_verification", "block_actions"}, id \in early}

(***************************************************************************)
(* slack_events: the dedup cache (views.py:115-134).                       *)
(***************************************************************************)
(* A truthiness test that lets the empty string through as an id. *)
HasEventIdNotNone(id) == id # 0

(* if event_id: *)
HasEventId(id) == id > 0

IsProcessed(id, cache) == id \in Range(cache)

(* A handler that forgets to record the id. *)
MarkProcessedNever(cache, id) == cache

(* processed_events[event_id] = True: a new key goes last, a key already   *)
(* present keeps its place.                                                *)
MarkProcessed(cache, id) ==
    IF id \in Range(cache) THEN cache ELSE Append(cache, id)

(* An eviction whose test is off by one. *)
EvictOldestLate(cache) ==
    IF Len(cache) > MaxProcessed + 1 THEN Tail(cache) ELSE cache

(* An eviction that pops the newest key instead of the oldest. *)
EvictNewest(cache) ==
    IF Len(cache) > MaxProcessed THEN SubSeq(cache, 1, Len(cache) - 1) ELSE cache

(* if len(processed_events) > 1000: pop(next(iter(processed_events)))      *)
EvictOldest(cache) ==
    IF Len(cache) > MaxProcessed THEN Tail(cache) ELSE cache

Respond(status, verdict) ==
    /\ resp' = [status |-> status, verdict |-> verdict]
    /\ pc' = "idle"

(* A request arrives at the idle server. *)
Receive(payloads) ==
    /\ pc = "idle"
    /\ \E p \in payloads : req' = p
    /\ pc' = "slack_events"
    /\ resp' = NoResp
    /\ i' = 0
    /\ urls' = <<>>
    /\ cur' = NoCur
    /\ calls' = <<>>
    /\ UNCHANGED <<processed_events, seen, index, wpc, wreq, handled, chunker>>

(* A slack_events that records the event id right after parsing the body, *)
(* before it looks at the type of the payload.                             *)
SlackEventsRecordFirst ==
    /\ pc = "slack_events"
    /\ IF ~req.sig_ok
       THEN Respond(403, "invalid_signature") /\ UNCHANGED <<processed_events, seen>>
       ELSE IF ~req.json_ok
       THEN Respond(400, "invalid_json") /\ UNCHANGED <<processed_events, seen>>
       ELSE IF HasEventId(req.event_id) /\ IsProcessed(req.event_id, processed_events)
       THEN Respond(200, "duplicate") /\ UNCHANGED <<processed_events, seen>>
       ELSE /\ processed_events' =
                IF HasEventId(req.event_id)
                THEN EvictOldest(MarkProcessed(processed_events, req.event_id))
                ELSE processed_events
            /\ seen' = IF req.event_id > seen THEN req.event_id ELSE seen
            /\ IF req.type = "url_verification"
               THEN Respond(200, "challenge")
               ELSE IF req.type # "event_callback"
               THEN Respond(200, "unsupported_type")
               ELSE IF req.event_type = "app_mention"
               THEN /\ pc' = "handle"
                    /\ resp' = [status |-> 0, verdict |-> "handled"]
               ELSE Respond(200, "ignored_event")
    /\ UNCHANGED <<req, i, urls, cur, calls, index, wpc, wreq, handled, chunker>>

(* slack_events up to its return or its call of handle_app_mention. *)
SlackEvents ==
    /\ pc = "slack_events"
    /\ IF ~req.sig_ok
       THEN Respond(403, "invalid_signature") /\ UNCHANGED <<processed_events, seen>>
       ELSE IF ~req.json_ok
       THEN Respond(400, "invalid_json") /\ UNCHANGED <<processed_events, seen>>
       ELSE IF req.type = "url_verification"
       THEN Respond(200, "challenge") /\ UNCHANGED <<processed_events, seen>>
       ELSE IF req.type # "event_callback"
       THEN Respond(200, "unsupported_type") /\ UNCHANGED <<processed_events, seen>>
       ELSE IF HasEventId(req.event_id) /\ IsProcessed(req.event_id, processed_events)
       THEN Respond(200, "duplicate") /\ UNCHANGED <<processed_events, seen>>
       ELSE /\ processed_events' =
                IF HasEventId(req.event_id)
                THEN EvictOldest(MarkProcessed(processed_events, req.event_id))
                ELSE processed_events
            /\ seen' = IF req.event_id > seen THEN req.event_id ELSE seen
            /\ IF req.event_type = "app_mention"
               THEN /\ pc' = "handle"
                    /\ resp' = [status |-> 0, verdict |-> "handled"]
               ELSE Respond(200, "ignored_event")
    /\ UNCHANGED <<req, i, urls, cur, calls, index, wpc, wreq, handled, chunker>>

(***************************************************************************)
(* Message texts and the regular expressions of handle_app_mention.        *)
(***************************************************************************)
Alphabet == {"H", "I", "IU", "M", "w", " ", ",", ">"}

UrlAlphabet == {"H", "w", " ", ","}

Texts == SeqsUpTo(Alphabet, MaxText) \cup SeqsUpTo(UrlAlphabet, MaxUrlText)

(* str.lower(): of the atoms only "Import RAG" has upper-case letters that *)
(* the handler's tests can tell apart.                                     *)
LowerAtom(a) == IF a = "IU" THEN "I" ELSE a

TextLower(t) == [k \in DOMAIN t |-> LowerAtom(t[k])]

Contains(t, a) == a \in Range(t)

(* views.py:220-224 *)
IsIngestText(text) ==
    Contains(text, "H") \/ Contains(TextLower(text), "I")

(* The atoms of a text spelled out as far as the URL scanner tells their   *)
(* characters apart: "import rag" holds a blank.                           *)
RECURSIVE Spell(_)
Spell(t) ==
    IF t = <<>> THEN <<>>
    ELSE (CASE Head(t) = "I" -> <<"import", " ", "rag">>
            [] Head(t) = "IU" -> <<"Import", " ", "RAG">>
            [] OTHER -> <<Head(t)>>) \o Spell(Tail(t))

(* [^\s<>]: blanks and angle brackets end a URL; a mention "<@U1>" begins with "<". *)
UrlChar(a) == a \notin {" ", "<", ">", "M"}

RECURSIVE RunEnd(_, _)
(* The last position of the run of URL characters that starts at p. *)
RunEnd(t, p) ==
    IF p + 1 <= Len(t) /\ UrlChar(t[p + 1]) THEN RunEnd(t, p + 1) ELSE p

RECURSIVE FindFrom(_, _)
FindFrom(t, p) ==
    IF p > Len(t) THEN <<>>
    ELSE IF t[p] = "H" /\ p + 1 <= Len(t) /\ UrlChar(t[p + 1])
    THEN <<SubSeq(t, p, RunEnd(t, p + 1))>> \o FindFrom(t, RunEnd(t, p + 1) + 1)
    ELSE FindFrom(t, p + 1)

(* re.findall(r"(https?://[^\s<>]+)", text), views.py:226 *)
FindUrls(text) == FindFrom(Spell(text), 1)

(* [\w/:\.-]: the last character of the atom is a word character or one of *)
(* / : . -                                                                 *)
EndsInUrlChar(a) == a # ","

(* re.sub(r"[^\w/:\.-]$", "", url), views.py:230 *)
CleanUrl(url) ==
    IF url # <<>> /\ ~EndsInUrlChar(url[Len(url)])
    THEN SubSeq(url, 1, Len(url) - 1)
    ELSE url

(* views.py:228-231 *)
CleanUrls(found) == [k \in DOMAIN found |-> CleanUrl(found[k])]

RECURSIVE LStrip(_)
LStrip(t) == IF t # <<>> /\ Head(t) = " " THEN LStrip(Tail(t)) ELSE t

RECURSIVE RStrip(_)
RStrip(t) ==
    IF t # <<>> /\ t[Len(t)] = " " THEN RStrip(SubSeq(t, 1, Len(t) - 1)) ELSE t

(* A question that keeps the blanks around the mention it loses. *)
QuestionOfNoStrip(text) == SelectSeq(text, LAMBDA a : a # "M")

(* re.sub(r"<@[A-Z0-9]+>", "", text).strip(), views.py:271 *)
QuestionOf(text) == RStrip(LStrip(SelectSeq(text, LAMBDA a : a # "M")))

(* hashlib.md5(url.encode()).hexdigest(), views.py:247: a function of the  *)
(* URL alone.                                                              *)
Md5(url) == <<"md5">> \o url

(***************************************************************************)
(* Attachments.                                                            *)
(***************************************************************************)
FileTypes == {"pdf", "docx", "doc", "xls", "png", "PDF", ""}

(* file.get("filetype", "").lower() *)
Lower(ft) == IF ft = "PDF" THEN "pdf" ELSE ft

SupportedTypes == {"pdf", "docx", "xlsx", "doc", "xls"}

(* A type check whose list also holds an image type. *)
IsSupportedWithPng(file_type) == file_type \in SupportedTypes \cup {"png"}

(* views.py:174 *)
IsSupported(file_type) == file_type \in SupportedTypes

Ordinal(k) == CASE k = 1 -> "1" [] k = 2 -> "2" [] k = 3 -> "3" [] OTHER -> "n"

FileAt(k, ft) ==
    [id |-> <<"F", Ordinal(k)>>, name |-> <<"N", Ordinal(k)>>, filetype |-> ft]

FileLists ==
    {[k \in DOMAIN fts |-> FileAt(k, fts[k])] : fts \in SeqsUpTo(FileTypes, MaxFiles)}

(* The texts that come with attachments: none, and a URL. *)
AttachTexts == {<<>>, <<"H", "w">>}

HandlerEvents ==
    {[files |-> fs, text |-> t] : fs \in FileLists \ {<<>>}, t \in AttachTexts}
    \cup {[files |-> <<>>, text |-> t] : t \in Texts}

HandlerPayloads ==
    {Payload(TRUE, TRUE, "event_callback", 1, "app_mention", ev) : ev \in HandlerEvents}

(***************************************************************************)
(* The collaborators' results.                                             *)
(***************************************************************************)
(* "is None" in place of "not": an empty value counts as a result. *)
FalsyNoneOnly(x) == x = NoneVal

(* if not x: None, and the empty bytes or string *)
Falsy(x) == x \in {NoneVal, ""}

(* SlackService.download_file: the bytes, or None *)
DownloadResults == {NoneVal, "", "bytes"}

(* What the parser of a file does with its bytes. *)
ParseOutcomes(file_type) ==
    IF file_type \in {"xlsx", "xls"} THEN {"text", "fail"}
    ELSE {"text", "empty", "fail"}

(* An extraction that gives the file type as the text of a document in    *)
(* which it found none.                                                    *)
ExtractTextNeverEmpty(file_type, parse) ==
    IF file_type \in {"pdf", "docx", "doc"}
    THEN (CASE parse = "text" -> "text" [] parse = "empty" -> file_type
            [] OTHER -> NoneVal)
    ELSE IF file_type \in {"xlsx", "xls"}
    THEN (IF parse = "fail" THEN "error_text" ELSE "text")
    ELSE NoneVal

(* DocumentService.extract_text, document_service.py:23-122: a parse       *)
(* failure is None for pdf and docx, and the text of the error for Excel.  *)
ExtractText(file_type, parse) ==
    IF file_type \in {"pdf", "docx", "doc"}
    THEN (CASE parse = "text" -> "text" [] parse = "empty" -> "" [] OTHER -> NoneVal)
    ELSE IF file_type \in {"xlsx", "xls"}
    THEN (IF parse = "fail" THEN "error_text" ELSE "text")
    ELSE NoneVal

FetchOutcomes ==
    {"request_error", "html", "html_fail", "pdf_empty", "pdf_fail", "plain"}

(* DocumentService.extract_from_url, document_service.py:124-214 *)
ExtractFromUrl(fetch) ==
    CASE fetch = "html" -> "text"
      [] fetch = "html_fail" -> "error_text"
      [] fetch = "pdf" -> "text"
      [] fetch = "pdf_empty" -> ""
      [] fetch = "plain" -> "text"
      [] fetch = "plain_empty" -> ""
      [] OTHER -> NoneVal

(* OpenAIService.create_embedding: the vector, or None *)
EmbedResults == {NoneVal, "vector"}

TopK == 3   \* views.py:295

(* OpenAIService.generate_answer: the answer, or None *)
AnswerResults == {NoneVal, "", "answer"}

(* A collaborator call in the trace: kind holds what it returned. *)
Call(op, arg, result) == [op |-> op, item |-> i, kind |-> result, src |-> arg]

(* send_slack_message, views.py:23-34 *)
Post(kind, src) == [op |-> "post_message", item |-> i, kind |-> kind, src |-> src]

(* An index that adds every submitted document as a new one. *)
UpsertAppend(idx, doc) == idx \cup {doc}

(* SearchService.index_document on success: upload_documents, keyed by id *)
Upsert(idx, doc) == {d \in idx : d.id # doc.id} \cup {doc}

(***************************************************************************)
(* handle_app_mention (views.py:147-338), one action per stage.            *)
(***************************************************************************)
Frame == UNCHANGED <<processed_events, seen, req, wpc, wreq, handled, chunker>>

(* A handler that looks at the text before it looks at the attachments. *)
RouteOfTextFirst(event) ==
    IF IsIngestText(event.text)
    THEN (IF CleanUrls(FindUrls(event.text)) # <<>> THEN "url"
          ELSE IF Contains(TextLower(event.text), "I") THEN "import_notice"
          ELSE "nothing")
    ELSE IF event.files # <<>> THEN "file"
    ELSE "query"

(* The branch handle_app_mention takes, views.py:167, 220-224, 233, 260.   *)
RouteOf(event) ==
    IF event.files # <<>> THEN "file"
    ELSE IF IsIngestText(event.text)
    THEN (IF CleanUrls(FindUrls(event.text)) # <<>> THEN "url"
          ELSE IF Contains(TextLower(event.text), "I") THEN "import_notice"
          ELSE "nothing")
    ELSE "query"

HandleAppMention ==
    /\ pc = "handle"
    /\ LET route == RouteOf(req.event) IN
       /\ pc' = IF route \in {"file", "url", "query"} THEN route ELSE "return"
       /\ urls' = IF route \in {"url", "import_notice", "nothing"}
                  THEN CleanUrls(FindUrls(req.event.text)) ELSE urls
       /\ i' = IF route \in {"file", "url"} THEN 1 ELSE i
       /\ calls' = IF route = "import_notice"
                   THEN Append(calls, Post("no_url", <<>>)) ELSE calls
    /\ UNCHANGED <<resp, cur, index>>
    /\ Frame

(* A per-file loop that stops at the first unsupported attachment (break   *)
(* in place of continue).                                                  *)
FileStepBreak ==
    /\ pc = "file"
    /\ IF i > Len(req.event.files)
       THEN pc' = "return" /\ UNCHANGED <<i, cur, calls>>
       ELSE LET file == req.event.files[i]
                file_type == Lower(file.filetype)
            IN  IF ~IsSupported(file_type)
                THEN /\ calls' = Append(calls, Post("unsupported", file.name))
                     /\ i' = i + 1
                     /\ pc' = "return"
                     /\ UNCHANGED cur
                ELSE /\ pc' = "download"
                     /\ cur' = [NoCur EXCEPT !.loop = "file",
                                  !.file_type = file_type, !.source = file.name,
                                  !.doc_type = file_type, !.doc_id = file.id]
                     /\ UNCHANGED <<i, calls>>
    /\ UNCHANGED <<resp, urls, index>>
    /\ Frame

(* The head of the per-file loop and the file type check, views.py:168-181 *)
FileStep ==
    /\ pc = "file"
    /\ IF i > Len(req.event.files)
       THEN pc' = "return" /\ UNCHANGED <<i, cur, calls>>
       ELSE LET file == req.event.files[i]
                file_type == Lower(file.filetype)
            IN  IF ~IsSupported(file_type)
                THEN /\ calls' = Append(calls, Post("unsupported", file.name))
                     /\ i' = i + 1
                     /\ UNCHANGED <<pc, cur>>
                ELSE /\ pc' = "download"
                     /\ cur' = [NoCur EXCEPT !.loop = "file",
                                  !.file_type = file_type, !.source = file.name,
                                  !.doc_type = file_type, !.doc_id = file.id]
                     /\ UNCHANGED <<i, calls>>
    /\ UNCHANGED <<resp, urls, index>>
    /\ Frame

(* views.py:184-192 *)
DownloadFile ==
    /\ pc = "download"
    /\ \E r \in DownloadResults :
        LET called == Append(calls, Call("download_file", cur.doc_id, r)) IN
        IF Falsy(r)
        THEN /\ calls' = Append(called, Post("download_failed", cur.source))
             /\ i' = i + 1
             /\ pc' = "file"
             /\ cur' = cur
        ELSE /\ calls' = called
             /\ pc' = "extract"
             /\ cur' = [cur EXCEPT !.content = r]
             /\ i' = i
    /\ UNCHANGED <<resp, urls, index>>
    /\ Frame

(* views.py:195-205 *)
ExtractStep ==
    /\ pc = "extract"
    /\ \E parse \in ParseOutcomes(cur.file_type) :
        LET text_content == ExtractText(cur.file_type, parse)
            called == Append(calls, Call("extract_text", <<cur.file_type>>, text_content))
        IN  IF Falsy(text_content)
            THEN /\ calls' = Append(called, Post("extract_failed", cur.source))
                 /\ i' = i + 1
                 /\ pc' = "file"
                 /\ cur' = [cur EXCEPT !.parse = parse]
            ELSE /\ calls' = called
                 /\ pc' = "embed"
                 /\ cur' = [cur EXCEPT !.content = text_content, !.parse = parse]
                 /\ i' = i
    /\ UNCHANGED <<resp, urls, index>>
    /\ Frame

(* The head of the per-URL loop and the fetch, views.py:234-247 *)
UrlStep ==
    /\ pc = "url"
    /\ IF i > Len(urls)
       THEN pc' = "return" /\ UNCHANGED <<i, cur, calls>>
       ELSE \E fetch \in FetchOutcomes :
            LET url == urls[i]
                content == ExtractFromUrl(fetch)
                called == Append(calls, Call("extract_from_url", url, content))
            IN  IF Falsy(content)
                THEN /\ calls' = Append(called, Post("fetch_failed", url))
                     /\ i' = i + 1
                     /\ cur' = [NoCur EXCEPT !.loop = "url", !.parse = fetch]
                     /\ pc' = pc
                ELSE /\ calls' = called
                     /\ pc' = "embed"
                     /\ cur' = [NoCur EXCEPT !.loop = "url", !.content = content,
                                  !.source = url, !.doc_type = "url",
                                  !.doc_id = Md5(url), !.parse = fetch]
                     /\ i' = i
    /\ UNCHANGED <<resp, urls, index>>
    /\ Frame

(* index_document, its embedding stage: views.py:49-57 *)
CreateEmbedding ==
    /\ pc = "embed"
    /\ \E r \in EmbedResults :
        LET called == Append(calls, Call("create_embedding", <<cur.content>>, r)) IN
        IF Falsy(r)
        THEN /\ calls' = Append(called, Post("embedding_failed", cur.source))
             /\ cur' = [cur EXCEPT !.ret = "False"]
             /\ i' = i + 1
             /\ pc' = cur.loop
        ELSE /\ calls' = called
             /\ cur' = [cur EXCEPT !.embedding = r]
             /\ pc' = "upsert"
             /\ i' = i
    /\ UNCHANGED <<resp, urls, index>>
    /\ Frame

(* The document index_document submits, views.py:60-66 *)
DocumentOf(c) ==
    [id |-> c.doc_id, content |-> c.content, embedding |-> c.embedding,
     source |-> c.source, type |-> c.doc_type]

(* An index_document that reports success whatever the index said. *)
UpsertNoticeAlwaysIndexed(success) == "indexed"

(* The notice index_document sends for what the index reports, views.py:69-82 *)
UpsertNotice(success) == IF success THEN "indexed" ELSE "index_failed"

(* index_document, its upsert stage: views.py:59-84 *)
IndexUpsert ==
    /\ pc = "upsert"
    /\ \E success \in BOOLEAN :
        /\ calls' = Append(Append(calls, Call("index_document", cur.doc_id,
                                       IF success THEN "True" ELSE "False")),
                           Post(UpsertNotice(success), cur.source))
        /\ index' = IF success THEN Upsert(index, DocumentOf(cur)) ELSE index
        /\ cur' = [cur EXCEPT !.ret = IF success THEN "True" ELSE "False"]
    /\ i' = i + 1
    /\ pc' = cur.loop
    /\ UNCHANGED <<resp, urls>>
    /\ Frame

(* views.py:271-280 *)
QueryQuestion ==
    /\ pc = "query"
    /\ LET question == QuestionOf(req.event.text) IN
       IF question = <<>>
       THEN /\ calls' = Append(calls, Post("empty_question", <<>>))
            /\ pc' = "return"
            /\ cur' = cur
       ELSE /\ cur' = [NoCur EXCEPT !.loop = "query", !.question = question]
            /\ pc' = "qembed"
            /\ calls' = calls
    /\ UNCHANGED <<resp, i, urls, index>>
    /\ Frame

(* views.py:283-291 *)
QueryEmbedding ==
    /\ pc = "qembed"
    /\ \E r \in EmbedResults :
        LET called == Append(calls, Call("create_embedding", cur.question, r)) IN
        IF Falsy(r)
        THEN /\ calls' = Append(called, Post("question_embedding_failed", <<>>))
             /\ pc' = "return"
             /\ cur' = cur
        ELSE /\ calls' = called
             /\ pc' = "search"
             /\ cur' = [cur EXCEPT !.embedding = r]
    /\ UNCHANGED <<resp, i, urls, index>>
    /\ Frame

(* views.py:294-305 *)
SearchDocuments ==
    /\ pc = "search"
    /\ \E n \in 0..TopK :
        LET called == Append(calls, Call("search_documents", <<>>,
                                    IF n = 0 THEN "empty" ELSE "results")) IN
        IF n = 0
        THEN /\ calls' = Append(called, Post("no_results", <<>>))
             /\ pc' = "return"
             /\ cur' = cur
        ELSE /\ calls' = called
             /\ pc' = "generate"
             /\ cur' = [cur EXCEPT !.results = n]
    /\ UNCHANGED <<resp, i, urls, index>>
    /\ Frame

(* A generation stage that sends nothing when no answer comes back. *)
GenerateAnswerSilent ==
    /\ pc = "generate"
    /\ \E answer \in AnswerResults :
        LET called == Append(calls, Call("generate_answer", cur.question, answer)) IN
        calls' = IF Falsy(answer) THEN called
                 ELSE Append(called, Post("answer", <<>>))
    /\ pc' = "return"
    /\ UNCHANGED <<resp, i, urls, cur, index>>
    /\ Frame

(* views.py:308-327 *)
GenerateAnswer ==
    /\ pc = "generate"
    /\ \E answer \in AnswerResults :
        LET called == Append(calls, Call("generate_answer", cur.question, answer)) IN
        calls' = Append(called,
                    IF Falsy(answer) THEN Post("generation_failed", <<>>)
                    ELSE Post("answer", <<>>))
    /\ pc' = "return"
    /\ UNCHANGED <<resp, i, urls, cur, index>>
    /\ Frame

(* return HttpResponse(status=200), views.py:280, 291, 305, 324, 329 *)
Return ==
    /\ pc = "return"
    /\ Respond(200, "handled")
    /\ UNCHANGED <<i, urls, cur, calls, index>>
    /\ Frame

(***************************************************************************)
(* The sequential server and its dedup cache, from an empty cache.         *)
(***************************************************************************)
Init ==
    /\ processed_events = <<>>
    /\ seen = 0
    /\ pc = "idle"
    /\ req = NoRequest
    /\ resp = NoResp
    /\ i = 0
    /\ urls = <<>>
    /\ cur = NoCur
    /\ calls = <<>>
    /\ index = {}
    /\ wpc = <<>>
    /\ wreq = <<>>
    /\ handled = <<>>
    /\ chunker = NoChunker

ReceiveDelivery == Receive(DedupPayloads)

Next ==
    \/ ReceiveDelivery
    \/ SlackEvents
    \/ HandleAppMention
    \/ QueryQuestion
    \/ Return

Spec == Init /\ [][Next]_vars

(***************************************************************************)
(* One app_mention request with any event, served to its end.              *)
(***************************************************************************)
HInit ==
    /\ processed_events = <<>>
    /\ seen = 0
    /\ pc = "slack_events"
    /\ req \in HandlerPayloads
    /\ resp = NoResp
    /\ i = 0
    /\ urls = <<>>
    /\ cur = NoCur
    /\ calls = <<>>
    /\ index = {}
    /\ wpc = <<>>
    /\ wreq = <<>>
    /\ handled = <<>>
    /\ chunker = NoChunker

HNext ==
    \/ SlackEvents
    \/ HandleAppMention
    \/ FileStep
    \/ DownloadFile
    \/ ExtractStep
    \/ UrlStep
    \/ CreateEmbedding
    \/ IndexUpsert
    \/ QueryQuestion
    \/ QueryEmbedding
    \/ SearchDocuments
    \/ GenerateAnswer
    \/ Return

HSpec == HInit /\ [][HNext]_vars

(***************************************************************************)
(* The dedup cache: claims C1-C4, checked under Spec.                      *)
(***************************************************************************)
ReachesDedup(r) == r.sig_ok /\ r.json_ok /\ r.type = "event_callback"

(* slack_events is about to run the dedup step on req. *)
DedupStep == pc = "slack_events" /\ ReachesDedup(req)

Passes ==
    /\ resp'.verdict = IF req.event_type = "app_mention" THEN "handled"
                       ELSE "ignored_event"
    /\ pc' = IF req.event_type = "app_mention" THEN "handle" ELSE "idle"

Skipped ==
    /\ resp' = [status |-> 200, verdict |-> "duplicate"]
    /\ pc' = "idle"
    /\ calls' = <<>>

FirstIds == [k \in 1..MaxProcessed |-> k]

(* C1 as stated: the first delivery of an event id is recorded and handled *)
(* and every later delivery of that id is skipped.                         *)
C1_OncePerId ==
    [][DedupStep /\ HasEventId(req.event_id) =>
        IF req.event_id <= seen
        THEN Skipped
        ELSE Passes /\ req.event_id \in Range(processed_events')]_vars

(* C1, amended: the first delivery of an event id is recorded and handled, *)
(* and a later delivery of it is skipped as long as the id is still in     *)
(* processed_events; once evicted, the id is recorded and handled again.   *)
C1_OncePerCachedId ==
    [][DedupStep /\ HasEventId(req.event_id) =>
        /\ req.event_id > seen => req.event_id \notin Range(processed_events)
        /\ IF req.event_id \in Range(processed_events)
           THEN Skipped /\ processed_events' = processed_events
           ELSE Passes /\ req.event_id \in Range(processed_events')]_vars

(* A redelivery has been skipped. *)
C1_Witness ==
    /\ resp.verdict = "duplicate"
    /\ req.event_id \in Range(processed_events)
    /\ req.event_id <= seen

(* C2: the cache never holds more than 1000 event ids. *)
C2_AtMostCap == Len(processed_events) <= MaxProcessed

(* More than 1000 distinct ids have been delivered and the cache is full. *)
C2_Witness ==
    /\ pc = "idle"
    /\ seen > MaxProcessed
    /\ Len(processed_events) = MaxProcessed

(* C3: eviction is first-in-first-out.  A new id goes last, and when the   *)
(* cache was full, exactly the first key leaves; a duplicate leaves the    *)
(* cache as it was.  After the ids 1..1001 the cache is 2..1001: id 1 is   *)
(* handled again, the other 1000 are skipped.                              *)
C3_Fifo ==
    [][DedupStep /\ HasEventId(req.event_id) =>
        /\ processed_events' =
              IF req.event_id \in Range(processed_events) THEN processed_events
              ELSE IF Len(processed_events) = MaxProcessed
              THEN Append(Tail(processed_events), req.event_id)
              ELSE Append(processed_events, req.event_id)
        /\ seen = MaxProcessed /\ seen' = MaxProcessed + 1 =>
              processed_events' = [k \in 1..MaxProcessed |-> k + 1]
        /\ processed_events = [k \in 1..MaxProcessed |-> k + 1] =>
              IF req.event_id = 1 THEN Passes ELSE
              IF req.event_id <= MaxProcessed + 1 THEN Skipped ELSE Passes]_vars

(* After 1001 distinct ids, id 1 has been delivered again and handled. *)
C3_Witness ==
    /\ seen = MaxProcessed + 1
    /\ req.event_id = 1
    /\ req.event_type = "app_mention"
    /\ resp = [status |-> 200, verdict |-> "handled"]
    /\ processed_events = [k \in 1..MaxProcessed |->
                              IF k = MaxProcessed THEN 1 ELSE k + 2]

(* C4: an event_callback with no event id passes the dedup step every time *)
(* and leaves processed_events as it was.                                  *)
C4_NoIdBypasses ==
    [][DedupStep /\ req.event_id \in NoEventId =>
        Passes /\ processed_events' = processed_events]_vars

(* A delivery with an empty event id has been handled, with ids cached. *)
C4_Witness ==
    /\ req.event_id = -1
    /\ ReachesDedup(req)
    /\ resp = [status |-> 200, verdict |-> "handled"]
    /\ processed_events # <<>>

(***************************************************************************)
(* slack_events served by concurrent workers (views.py:117-141): every     *)
(* statement on the shared dict is a step of its own, and nothing guards   *)
(* the dict.  Each worker serves one app_mention delivery.  The cache is   *)
(* empty or holds the ids 1..1000, as after 1000 deliveries.               *)
(***************************************************************************)
Workers == 1..NumWorkers

ConcurrentIds == {-1, 1, MaxProcessed + 1}

CInit ==
    /\ processed_events \in {<<>>, FirstIds}
    /\ seen = Len(processed_events)
    /\ pc = "idle"
    /\ req = NoRequest
    /\ resp = NoResp
    /\ i = 0
    /\ urls = <<>>
    /\ cur = NoCur
    /\ calls = <<>>
    /\ index = {}
    /\ wpc = [w \in Workers |-> "idle"]
    /\ wreq = [w \in Workers |-> [event_id |-> 0, key |-> 0]]
    /\ handled = [w \in Workers |-> FALSE]
    /\ chunker = NoChunker

CFrame == UNCHANGED <<seen, pc, req, resp, i, urls, cur, calls, index, chunker>>

WReceive(w) ==
    /\ wpc[w] = "idle"
    /\ \E id \in ConcurrentIds :
        wreq' = [wreq EXCEPT ![w] = [event_id |-> id, key |-> 0]]
    /\ wpc' = [wpc EXCEPT ![w] = "check"]
    /\ UNCHANGED <<processed_events, handled>>
    /\ CFrame

(* A check that records the id in the same step. *)
WCheckAndMark(w) ==
    /\ wpc[w] = "check"
    /\ IF ~HasEventId(wreq[w].event_id)
       THEN wpc' = [wpc EXCEPT ![w] = "dispatch"] /\ UNCHANGED processed_events
       ELSE IF IsProcessed(wreq[w].event_id, processed_events)
       THEN wpc' = [wpc EXCEPT ![w] = "skipped"] /\ UNCHANGED processed_events
       ELSE /\ wpc' = [wpc EXCEPT ![w] = "len"]
            /\ processed_events' = MarkProcessed(processed_events, wreq[w].event_id)
    /\ UNCHANGED <<wreq, handled>>
    /\ CFrame

(* if event_id: ... if event_id in processed_events: return, views.py:118-127 *)
WCheck(w) ==
    /\ wpc[w] = "check"
    /\ wpc' = [wpc EXCEPT ![w] =
                  IF ~HasEventId(wreq[w].event_id) THEN "dispatch"
                  ELSE IF IsProcessed(wreq[w].event_id, processed_events)
                  THEN "skipped" ELSE "mark"]
    /\ UNCHANGED <<processed_events, wreq, handled>>
    /\ CFrame

(* processed_events[event_id] = True, views.py:130 *)
WMark(w) ==
    /\ wpc[w] = "mark"
    /\ processed_events' = MarkProcessed(processed_events, wreq[w].event_id)
    /\ wpc' = [wpc EXCEPT ![w] = "len"]
    /\ UNCHANGED <<wreq, handled>>
    /\ CFrame

(* if len(processed_events) > 1000, views.py:131 *)
WLen(w) ==
    /\ wpc[w] = "len"
    /\ wpc' = [wpc EXCEPT ![w] =
                  IF Len(processed_events) > MaxProcessed THEN "first" ELSE "dispatch"]
    /\ UNCHANGED <<processed_events, wreq, handled>>
    /\ CFrame

(* key = next(iter(processed_events)), views.py:133 *)
WFirst(w) ==
    /\ wpc[w] = "first"
    /\ processed_events # <<>>
    /\ wreq' = [wreq EXCEPT ![w].key = Head(processed_events)]
    /\ wpc' = [wpc EXCEPT ![w] = "pop"]
    /\ UNCHANGED <<processed_events, handled>>
    /\ CFrame

(* processed_events.pop(key), views.py:134: a KeyError when another worker *)
(* has popped the key meanwhile.                                           *)
WPop(w) ==
    /\ wpc[w] = "pop"
    /\ IF wreq[w].key \in Range(processed_events)
       THEN /\ processed_events' =
                   SelectSeq(processed_events, LAMBDA k : k # wreq[w].key)
            /\ wpc' = [wpc EXCEPT ![w] = "dispatch"]
       ELSE /\ wpc' = [wpc EXCEPT ![w] = "key_error"]
            /\ UNCHANGED processed_events
    /\ UNCHANGED <<wreq, handled>>
    /\ CFrame

(* return handle_app_mention(event, payload), views.py:136-141 *)
WDispatch(w) ==
    /\ wpc[w] = "dispatch"
    /\ handled' = [handled EXCEPT ![w] = TRUE]
    /\ wpc' = [wpc EXCEPT ![w] = "done"]
    /\ UNCHANGED <<processed_events, wreq>>
    /\ CFrame

CNext ==
    \E w \in Workers :
        \/ WReceive(w)
        \/ WCheck(w)
        \/ WMark(w)
        \/ WLen(w)
        \/ WFirst(w)
        \/ WPop(w)
        \/ WDispatch(w)

CSpec == CInit /\ [][CNext]_vars

(* C5: the membership check and the insertion are separate steps: a check  *)
(* changes nothing in the cache and lets a delivery through exactly when   *)
(* its id is not cached at that moment, so two deliveries of one id can    *)
(* both pass before either is recorded.                                    *)
C5_CheckThenInsert ==
    [][\A w \in Workers :
        wpc[w] = "check" /\ wpc'[w] # "check" =>
            /\ processed_events' = processed_events
            /\ wpc'[w] = "skipped" <=>
                  /\ HasEventId(wreq[w].event_id)
                  /\ wreq[w].event_id \in Range(processed_events)]_vars

(* Two deliveries of one event id have both been handled. *)
C5_Witness ==
    \E v, w \in Workers :
        /\ v # w
        /\ HasEventId(wreq[v].event_id)
        /\ wreq[v].event_id = wreq[w].event_id
        /\ handled[v] /\ handled[w]

(***************************************************************************)
(* handle_app_mention: claims C6-C10, checked under HSpec.                 *)
(***************************************************************************)
Done == pc = "idle" /\ resp = [status |-> 200, verdict |-> "handled"]

IsPost(c) == c.op = "post_message"

Posts == SelectSeq(calls, IsPost)

ItemCalls(k) == SelectSeq(calls, LAMBDA c : c.item = k)

Stages(k) == SelectSeq(calls, LAMBDA c : c.item = k /\ ~IsPost(c))

IndexNotices == {"embedding_failed", "indexed", "index_failed"}

FileNotices == {"unsupported", "download_failed", "extract_failed"} \cup IndexNotices

UrlNotices == {"fetch_failed"} \cup IndexNotices

QueryNotices ==
    {"empty_question", "question_embedding_failed", "no_results",
     "generation_failed", "answer"}

FoundUrls == CleanUrls(FindUrls(req.event.text))

HasImportKeyword == Contains(TextLower(req.event.text), "I")

(* Only the per-file ingestion has run, on every attachment. *)
FileFlowOnly ==
    /\ \A c \in Range(calls) :
        /\ c.op \in {"download_file", "extract_text", "create_embedding",
                     "index_document", "post_message"}
        /\ c.item \in 1..Len(req.event.files)
        /\ IsPost(c) => c.kind \in FileNotices
    /\ \A k \in 1..Len(req.event.files) : ItemCalls(k) # <<>>

(* Only the per-URL ingestion has run, on every URL of the text. *)
UrlFlowOnly ==
    /\ \A c \in Range(calls) :
        /\ c.op \in {"extract_from_url", "create_embedding", "index_document",
                     "post_message"}
        /\ c.item \in 1..Len(FoundUrls)
        /\ IsPost(c) => c.kind \in UrlNotices
    /\ LET fetched == SelectSeq(calls, LAMBDA c : c.op = "extract_from_url")
       IN  [k \in DOMAIN fetched |-> fetched[k].src] = FoundUrls

(* Only the query-answer flow has run. *)
QueryFlowOnly ==
    /\ \A c \in Range(calls) :
        /\ c.op \in {"create_embedding", "search_documents", "generate_answer",
                     "post_message"}
        /\ c.item = 0
        /\ IsPost(c) => c.kind \in QueryNotices
    /\ Posts # <<>>

(* C6 as stated: files, else a URL in the text, else the query flow. *)
C6_ThreeRoutes ==
    Done =>
        IF req.event.files # <<>> THEN FileFlowOnly
        ELSE IF FoundUrls # <<>> THEN UrlFlowOnly
        ELSE QueryFlowOnly

(* C6, amended: with attachments only the per-file ingestion runs; else,   *)
(* if the text holds "http://", "https://" or (in any case) "import rag",  *)
(* only the ingestion of the URLs found in it runs, and when none is found *)
(* nothing is ingested and the no-URL notice is the only call, sent if the *)
(* text holds "import rag"; else only the query flow runs.                 *)
C6_Routes ==
    Done =>
        IF req.event.files # <<>> THEN FileFlowOnly
        ELSE IF Contains(req.event.text, "H") \/ HasImportKeyword
        THEN (IF FoundUrls # <<>> THEN UrlFlowOnly
              ELSE calls = IF HasImportKeyword
                           THEN <<[op |-> "post_message", item |-> 0,
                                   kind |-> "no_url", src |-> <<>>]>>
                           ELSE <<>>)
        ELSE QueryFlowOnly

(* An event with an attachment and a URL in its text has ingested the      *)
(* attachment.                                                             *)
C6_Witness ==
    /\ Done
    /\ req.event.files # <<>>
    /\ FoundUrls # <<>>
    /\ \E c \in Range(calls) : IsPost(c) /\ c.kind = "indexed"

(* The source label of item k of the batch. *)
LabelOf(k) ==
    IF req.event.files # <<>> THEN req.event.files[k].name ELSE FoundUrls[k]

(* What a step in which index_document returns leaves behind. *)
IndexDocumentReturns ==
    pc \in {"embed", "upsert"} /\ pc' \notin {"embed", "upsert"} =>
        LET mine == SelectSeq(calls', LAMBDA c : c.item = i /\
                        c.op \in {"create_embedding", "index_document",
                                  "post_message"})
            notice(kind) == [op |-> "post_message", item |-> i, kind |-> kind,
                             src |-> LabelOf(i)]
        IN  /\ Len(SelectSeq(calls', LAMBDA c : c.item = i /\ IsPost(c))) = 1
            /\ \/ /\ Len(mine) = 2
                  /\ mine[1].op = "create_embedding" /\ mine[1].kind = NoneVal
                  /\ mine[2] = notice("embedding_failed")
                  /\ cur'.ret = "False"
               \/ /\ Len(mine) = 3
                  /\ mine[1].op = "create_embedding" /\ mine[1].kind # NoneVal
                  /\ mine[2].op = "index_document" /\ mine[2].kind = "False"
                  /\ mine[3] = notice("index_failed")
                  /\ cur'.ret = "False"
               \/ /\ Len(mine) = 3
                  /\ mine[1].op = "create_embedding" /\ mine[1].kind # NoneVal
                  /\ mine[2].op = "index_document" /\ mine[2].kind = "True"
                  /\ mine[3] = notice("indexed")
                  /\ cur'.ret = "True"

(* C7: a call of index_document sends exactly one notice, the one of its   *)
(* outcome, naming the source, and returns True exactly on success.        *)
C7_OneNoticePerOutcome == [][IndexDocumentReturns]_vars

(* index_document has reported a failed upsert and a success in one event. *)
C7_Witness ==
    /\ Done
    /\ \E c \in Range(calls) : IsPost(c) /\ c.kind = "index_failed"
    /\ \E c \in Range(calls) : IsPost(c) /\ c.kind = "indexed"

Pipeline ==
    IF req.event.files # <<>>
    THEN <<"download_file", "extract_text", "create_embedding", "index_document">>
    ELSE <<"extract_from_url", "create_embedding", "index_document">>

(* The call returned its failure value. *)
Failed(c) == c.kind \in {NoneVal, "", "False"}

(* C8: the stages of one source run in order, each at most once, and a     *)
(* stage that returned failure is the last stage run for that source.      *)
C8_NoRetry ==
    \A k \in 1..Len(calls) :
        LET st == Stages(k) IN
        /\ Len(st) <= Len(Pipeline)
        /\ \A j \in DOMAIN st :
            /\ st[j].op = Pipeline[j]
            /\ Failed(st[j]) => j = Len(st)

(* After a failed embedding of the first source the handler has gone on to *)
(* the second one, and has finished.                                       *)
C8_Witness ==
    /\ Done
    /\ \E j \in DOMAIN calls :
        /\ calls[j].op = "create_embedding" /\ calls[j].kind = NoneVal
        /\ calls[j].item = 1
    /\ \E c \in Range(calls) : c.op = "index_document" /\ c.item = 2

(* C9: an attachment whose lower-cased filetype is not pdf, docx, xlsx,    *)
(* doc or xls gets the unsupported-format notice and no other call.        *)
C9_UnsupportedRejected ==
    \A k \in DOMAIN req.event.files :
        Lower(req.event.files[k].filetype) \notin {"pdf", "docx", "xlsx", "doc", "xls"} =>
            LET notice == [op |-> "post_message", item |-> k,
                           kind |-> "unsupported", src |-> req.event.files[k].name]
            IN  /\ ItemCalls(k) \in {<<>>, <<notice>>}
                /\ (Done \/ (pc # "handle" /\ pc # "slack_events" /\ i > k))
                      => ItemCalls(k) = <<notice>>

(* A png attachment was rejected and the pdf after it was downloaded. *)
C9_Witness ==
    /\ Done
    /\ Len(req.event.files) = 2
    /\ req.event.files[1].filetype = "png"
    /\ \E c \in Range(calls) : c.op = "download_file" /\ c.item = 2

(* The number of sources of the batch. *)
BatchSize ==
    IF req.event.files # <<>> THEN Len(req.event.files) ELSE Len(FoundUrls)

(* C10: a batch of N attachments or N URLs is worked through in order and  *)
(* ends with exactly N notices, the k-th about the k-th source.            *)
C10_OneNoticePerItem ==
    Done /\ (req.event.files # <<>> \/ IsIngestText(req.event.text))
         /\ BatchSize > 0 =>
        /\ Len(Posts) = BatchSize
        /\ \A k \in DOMAIN Posts : Posts[k].item = k /\ Posts[k].src = LabelOf(k)
        /\ \A a, b \in DOMAIN calls : a < b => calls[a].item <= calls[b].item

(* A failed download did not keep the next attachment from being indexed. *)
C10_Witness ==
    /\ Done
    /\ Len(Posts) = 2
    /\ Posts[1].kind = "download_failed"
    /\ Posts[2].kind = "indexed"

(***************************************************************************)
(* Exceptions in handle_app_mention.  extract_text, extract_from_url,      *)
(* create_embedding, index_document, search_documents and generate_answer  *)
(* catch Exception themselves; download_file catches SlackApiError and     *)
(* requests.RequestException only, post_message SlackApiError only, so any *)
(* other error of those two reaches the handler's single try/except.       *)
(***************************************************************************)
Last(s) == s[Len(s)]

(* The trace entry of an exception raised by the call c. *)
Raised(c) == [op |-> "raise", item |-> c.item, kind |-> c.op, src |-> c.src]

(* download_file raises an error it does not catch, slack_service.py:38-71 *)
DownloadFileRaises ==
    /\ pc = "download"
    /\ LET c == Call("download_file", cur.doc_id, "raise")
       IN  calls' = Append(Append(calls, c), Raised(c))
    /\ pc' = "except"
    /\ UNCHANGED <<resp, i, urls, cur, index>>
    /\ Frame

(* The handler stands right behind a send_slack_message of its try block. *)
JustPosted ==
    /\ calls # <<>>
    /\ IsPost(Last(calls))
    /\ \/ pc \in {"file", "url"}
       \/ pc = "return" /\ RouteOf(req.event) \in {"query", "import_notice"}

(* That post_message raised an error it does not catch instead of          *)
(* returning, slack_service.py:20-36.                                      *)
PostMessageRaises ==
    /\ JustPosted
    /\ calls' = Append(calls, Raised(Last(calls)))
    /\ pc' = "except"
    /\ UNCHANGED <<resp, i, urls, cur, index>>
    /\ Frame

(* An except block that also forgets the event id, so that a redelivery    *)
(* of the failed event would be handled.                                   *)
ExceptHandlerForgets ==
    /\ pc = "except"
    /\ calls' = Append(calls, Post("error", <<>>))
    /\ \E sent \in BOOLEAN :
        IF sent THEN Respond(200, "error_reported")
        ELSE Respond(500, "exception_propagated")
    /\ processed_events' =
          SelectSeq(processed_events, LAMBDA id : id # req.event_id)
    /\ UNCHANGED <<i, urls, cur, index>>
    /\ UNCHANGED <<seen, req, wpc, wreq, handled, chunker>>

(* except Exception, views.py:330-338: one send_slack_message, then 200;   *)
(* an error raised by that send leaves the handler and the view.           *)
ExceptHandler ==
    /\ pc = "except"
    /\ calls' = Append(calls, Post("error", <<>>))
    /\ \E sent \in BOOLEAN :
        IF sent THEN Respond(200, "error_reported")
        ELSE Respond(500, "exception_propagated")
    /\ UNCHANGED <<i, urls, cur, index>>
    /\ Frame

ENext ==
    \/ HNext
    \/ DownloadFileRaises
    \/ PostMessageRaises
    \/ ExceptHandler

ESpec == HInit /\ [][ENext]_vars

(***************************************************************************)
(* Error handling: claims C11 and C12, checked under ESpec.                *)
(***************************************************************************)
Served == pc = "idle" /\ resp.status # 0

Exceptions == SelectSeq(calls, LAMBDA c : c.op = "raise")

ErrorPosts == SelectSeq(calls, LAMBDA c : IsPost(c) /\ c.kind = "error")

(* C11 as stated: an exception raised while one attachment or URL of a     *)
(* batch is processed becomes a notification, and every later item of the  *)
(* batch is still processed.                                               *)
C11_SiblingsStillProcessed ==
    Served /\ BatchSize > 0 =>
        \A e \in Range(Exceptions) :
            /\ Posts # <<>>
            /\ \A k \in (e.item + 1)..BatchSize :
                \E c \in Range(calls) :
                    c.item = k /\ c.op # "raise" /\ c.kind # "error"

(* C12 as stated: an exception raised in the body of handle_app_mention    *)
(* is caught once, gives exactly one generic error notification, and the   *)
(* handler returns 200.                                                    *)
C12_CaughtOnce ==
    Served /\ Exceptions # <<>> =>
        /\ Len(Exceptions) = 1
        /\ Len(ErrorPosts) = 1
        /\ resp.status = 200

(***************************************************************************)
(* The query-answer flow: claims C13 and C14, checked under HSpec, where   *)
(* every collaborator returns (a value or its failure value).              *)
(***************************************************************************)
QueryRoute == req.event.files = <<>> /\ ~IsIngestText(req.event.text)

QueryStages == SelectSeq(calls, LAMBDA c : ~IsPost(c))

StageOrder == <<"create_embedding", "search_documents", "generate_answer">>

(* The notice that goes with the way the flow ended. *)
OutcomeNotice ==
    IF QueryStages = <<>> THEN "empty_question"
    ELSE LET s == Last(QueryStages) IN
         IF s.op = "create_embedding" THEN "question_embedding_failed"
         ELSE IF s.op = "search_documents" THEN "no_results"
         ELSE IF s.kind = "answer" THEN "answer"
         ELSE "generation_failed"

(* C13: every run of the query-answer flow sends exactly one notification, *)
(* the one of its outcome: empty question, embedding failure, no results,  *)
(* generation failure, or the answer.                                      *)
C13_OneQueryNotice ==
    Done /\ QueryRoute =>
        /\ Len(Posts) = 1
        /\ Last(calls) = Posts[1]
        /\ Posts[1].kind \in QueryNotices
        /\ Posts[1].kind = OutcomeNotice

(* A query whose search found documents and whose generation gave nothing  *)
(* has ended with the generation-failure notice.                           *)
C13_Witness ==
    /\ Done
    /\ QueryRoute
    /\ Len(QueryStages) = 3
    /\ Falsy(QueryStages[3].kind)
    /\ Posts = <<Post("generation_failed", <<>>)>>

(* The text holds nothing but bot mentions and blanks. *)
BlankQuestion == \A k \in DOMAIN req.event.text : req.event.text[k] \in {"M", " "}

(* C14: the stages of the query flow run in order and short-circuit: no    *)
(* embedding of a question that is empty once mention and blanks are       *)
(* stripped, a search only after an embedding, a generation only after a   *)
(* non-empty search result, the answer posted only if one was generated;   *)
(* nothing runs after a notice.                                            *)
C14_QueryShortCircuit ==
    QueryRoute /\ pc \notin {"slack_events", "handle"} =>
        /\ Len(QueryStages) <= Len(StageOrder)
        /\ \A k \in DOMAIN QueryStages :
            /\ QueryStages[k].op = StageOrder[k]
            /\ k < Len(QueryStages) =>
                  QueryStages[k].kind \in {"vector", "results"}
        /\ BlankQuestion => QueryStages = <<>>
        /\ \A k \in DOMAIN calls :
            IsPost(calls[k]) =>
                /\ k = Len(calls)
                /\ calls[k].kind = "answer" =>
                      /\ Len(QueryStages) = Len(StageOrder)
                      /\ Last(QueryStages).kind = "answer"

(* A text of a mention and blanks only has been answered with the          *)
(* empty-question notice, no stage called.                                 *)
C14_Witness ==
    /\ Done
    /\ QueryRoute
    /\ BlankQuestion
    /\ Contains(req.event.text, " ")
    /\ calls = <<Post("empty_question", <<>>)>>

(***************************************************************************)
(* Re-ingestion: a sequence of app_mention events whose texts name the    *)
(* same URLs, served one after the other on one index.                     *)
(***************************************************************************)
UrlTexts ==
    {<<"H", "w">>, <<"H", "w", ",">>, <<"H", "w", " ", "H", "w">>,
     <<"H", "w", " ", "H", "w", "w">>}

UrlPayloads ==
    {Payload(TRUE, TRUE, "event_callback", seen + 1, "app_mention",
             [files |-> <<>>, text |-> t]) : t \in UrlTexts}

UReceive == seen < MaxEvents /\ Receive(UrlPayloads)

UNext ==
    \/ UReceive
    \/ SlackEvents
    \/ HandleAppMention
    \/ UrlStep
    \/ CreateEmbedding
    \/ IndexUpsert
    \/ Return

USpec == Init /\ [][UNext]_vars

(* The documents submitted to the index while serving req. *)
Submitted == SelectSeq(calls, LAMBDA c : c.op = "index_document")

(* C15: the documents submitted for one URL, in one event or in different  *)
(* events, carry the same id, and the index holds at most one document of  *)
(* that URL.                                                               *)
C15_OneDocumentPerUrl ==
    /\ \A d1, d2 \in index : d1.source = d2.source => d1 = d2
    /\ \A c1, c2 \in Range(Submitted) :
          urls[c1.item] = urls[c2.item] => c1.src = c2.src
    /\ \A c \in Range(Submitted), d \in index :
          d.source = urls[c.item] => d.id = c.src

(* A later event has ingested one URL twice, both submissions accepted,    *)
(* and the index holds one document.                                       *)
C15_Witness ==
    /\ Done
    /\ seen = MaxEvents
    /\ Len(Submitted) = 2
    /\ urls[1] = urls[2]
    /\ \A c \in Range(Submitted) : c.kind = "True"
    /\ Cardinality(index) = 1

(***************************************************************************)
(* DocumentService.chunk_text (document_service.py:216-257).  A text is a  *)
(* sequence of characters, "a" standing for any character other than the   *)
(* blank and the newline.  Positions are Python's: 0-based, and negative   *)
(* ones count from the end.                                                *)
(***************************************************************************)
ChunkChars == {"a", " ", "\n"}

ChunkTexts == SeqsUpTo(ChunkChars, MaxChunkText)

ChunkSizes == 0..MaxChunkSize

Overlaps == (-1)..MaxOverlap

(* The loop is followed for this many chunks. *)
MaxLoops == MaxChunkText + 2

(* A slice bound as Python normalises it. *)
PyBound(k, n) ==
    IF k < 0 THEN (IF k + n < 0 THEN 0 ELSE k + n)
    ELSE IF k > n THEN n ELSE k

(* t[a:b] *)
PySlice(t, a, b) == SubSeq(t, PyBound(a, Len(t)) + 1, PyBound(b, Len(t)))

(* t[k] for -len(t) <= k < len(t) *)
PyAt(t, k) == t[(IF k < 0 THEN k + Len(t) ELSE k) + 1]

(* t.find(ch, from) *)
PyFind(t, ch, from) ==
    LET hits == {k \in PyBound(from, Len(t))..(Len(t) - 1) : t[k + 1] = ch}
    IN  IF hits = {} THEN -1
        ELSE CHOOSE k \in hits : \A h \in hits : k <= h

(* A short text that gives no chunk at all when it is empty. *)
WholeTextSkipEmpty(t) == IF t = <<>> THEN <<>> ELSE <<t>>

(* return [text], document_service.py:223-224 *)
WholeText(t) == <<t>>

(* The end of the chunk, document_service.py:239-249 *)
MoveBoundary(t, end) ==
    IF PyAt(t, end) # " " /\ end < Len(t) - 1
    THEN LET next_space == PyFind(t, " ", end)
             next_newline == PyFind(t, "\n", end)
         IN  IF next_newline # -1 /\ (next_space = -1 \/ next_newline < next_space)
             THEN next_newline + 1
             ELSE IF next_space # -1 THEN next_space + 1
             ELSE end
    ELSE end

(* A next chunk that steps back by twice the overlap. *)
NextStartDoubleOverlap(end, overlap) == end - 2 * overlap

(* A next chunk that starts one character late. *)
NextStartGap(end, overlap) == end - overlap + 1

(* A next chunk that starts where the last one ended. *)
NextStartNoOverlap(end, overlap) == end

(* start = end - overlap, document_service.py:255 *)
NextStart(end, overlap) == end - overlap

ServerVars ==
    <<processed_events, seen, pc, req, resp, i, urls, cur, calls, index,
      wpc, wreq, handled>>

(* document_service.py:223-227 *)
ChunkTextCall ==
    /\ chunker.pc = "call"
    /\ chunker' =
          IF Len(chunker.text) <= chunker.chunk_size
          THEN [chunker EXCEPT !.chunks = WholeText(chunker.text), !.pc = "done"]
          ELSE [chunker EXCEPT !.chunks = <<>>, !.start = 0, !.pc = "loop"]
    /\ UNCHANGED ServerVars

(* One turn of the while loop, document_service.py:229-255; text[end] with *)
(* end < -len(text) raises IndexError, which chunk_text does not catch.    *)
ChunkTextLoop ==
    /\ chunker.pc = "loop"
    /\ Len(chunker.chunks) < MaxLoops
    /\ LET text == chunker.text
           start == chunker.start
           end == start + chunker.chunk_size
       IN  chunker' =
             IF ~(start < Len(text))
             THEN [chunker EXCEPT !.pc = "done"]
             ELSE IF end >= Len(text)
             THEN [chunker EXCEPT
                      !.chunks = Append(@, PySlice(text, start, Len(text))),
                      !.spans = Append(@, [start |-> start, end |-> Len(text),
                                           last |-> TRUE]),
                      !.pc = "done"]
             ELSE IF end < -Len(text)
             THEN [chunker EXCEPT !.pc = "index_error"]
             ELSE LET moved == MoveBoundary(text, end) IN
                  [chunker EXCEPT
                      !.chunks = Append(@, PySlice(text, start, moved)),
                      !.spans = Append(@, [start |-> start, end |-> moved,
                                           last |-> FALSE]),
                      !.start = NextStart(moved, chunker.overlap)]
    /\ UNCHANGED ServerVars

KInit ==
    /\ chunker \in {[text |-> t, chunk_size |-> n, overlap |-> o, start |-> 0,
                     chunks |-> <<>>, spans |-> <<>>, pc |-> "call"] :
                       t \in ChunkTexts, n \in ChunkSizes, o \in Overlaps}
    /\ processed_events = <<>>
    /\ seen = 0
    /\ pc = "idle"
    /\ req = NoRequest
    /\ resp = NoResp
    /\ i = 0
    /\ urls = <<>>
    /\ cur = NoCur
    /\ calls = <<>>
    /\ index = {}
    /\ wpc = <<>>
    /\ wreq = <<>>
    /\ handled = <<>>

KNext ==
    \/ ChunkTextCall
    \/ ChunkTextLoop

KSpec == KInit /\ [][KNext]_vars

(***************************************************************************)
(* chunk_text: claims C16-C18 and C20, checked under KSpec.                *)
(***************************************************************************)
Whitespace == {" ", "\n"}

LongText == Len(chunker.text) > chunker.chunk_size

(* The k-th chunk is the text between the positions recorded for it. *)
ChunksAreSpans ==
    /\ Len(chunker.spans) = Len(chunker.chunks)
    /\ \A k \in DOMAIN chunker.spans :
        /\ 0 <= chunker.spans[k].start
        /\ chunker.chunks[k] =
              SubSeq(chunker.text, chunker.spans[k].start + 1, chunker.spans[k].end)

(* Every position of the text lies in a returned chunk. *)
Covered ==
    IF LongText
    THEN /\ ChunksAreSpans
         /\ \A p \in 0..(Len(chunker.text) - 1) :
              \E k \in DOMAIN chunker.spans :
                  chunker.spans[k].start <= p /\ p < chunker.spans[k].end
    ELSE chunker.chunks = <<chunker.text>>

(* C16: a text no longer than chunk_size comes back as one chunk, the text *)
(* itself, whatever the overlap; the empty text gives one empty chunk.     *)
C16_ShortTextOneChunk ==
    ~LongText /\ chunker.pc # "call" =>
        /\ chunker.pc = "done"
        /\ Len(chunker.chunks) = 1
        /\ chunker.chunks[1] = chunker.text

(* The empty text has been chunked with an overlap above chunk_size. *)
C16_Witness ==
    /\ chunker.pc = "done"
    /\ chunker.text = <<>>
    /\ chunker.overlap > chunker.chunk_size
    /\ chunker.chunks = << <<>> >>

(* For arguments that satisfy valid: the call ends, after at most one loop *)
(* turn per character since every chunk starts behind the one before, and *)
(* the chunks it returns cover the text.                                   *)
TerminatesAndCovers(valid) ==
    valid =>
        /\ chunker.pc # "index_error"
        /\ Len(chunker.chunks) <= Len(chunker.text) + 1
        /\ Len(chunker.chunks) < MaxLoops
        /\ \A k \in DOMAIN chunker.spans :
              k > 1 => chunker.spans[k].start > chunker.spans[k - 1].start
        /\ chunker.pc = "done" => Covered

(* C17 as stated: for every overlap < chunk_size chunk_text terminates and *)
(* every position of the text lies in a returned chunk.                    *)
C17_AnyOverlapBelowSize ==
    TerminatesAndCovers(chunker.overlap < chunker.chunk_size)

(* C17, amended: for 0 <= overlap < chunk_size chunk_text terminates and   *)
(* every position of the text lies in a returned chunk.                    *)
C17_TerminatesAndCovers ==
    TerminatesAndCovers(0 <= chunker.overlap /\ chunker.overlap < chunker.chunk_size)

(* A text has been cut into three chunks or more with a positive overlap,  *)
(* one boundary moved forward to whitespace.                               *)
C17_Witness ==
    /\ chunker.pc = "done"
    /\ 0 < chunker.overlap /\ chunker.overlap < chunker.chunk_size
    /\ Len(chunker.chunks) >= 3
    /\ \E k \in DOMAIN chunker.spans :
          chunker.spans[k].end > chunker.spans[k].start + chunker.chunk_size

(* overlap = chunk_size and neither a blank nor a newline from position    *)
(* chunk_size on: the boundary is never moved.                             *)
Stuck ==
    /\ LongText
    /\ chunker.overlap = chunker.chunk_size
    /\ \A p \in (chunker.chunk_size + 1)..Len(chunker.text) :
          chunker.text[p] \notin Whitespace

C20_MovedOnlyMidToken ==
    \A k \in DOMAIN chunker.spans :
        LET sp == chunker.spans[k]
            boundary == sp.start + chunker.chunk_size
            unmoved == /\ sp.end = boundary
                       /\ chunker.chunks[k] =
                             SubSeq(chunker.text, sp.start + 1, boundary)
        IN  ~sp.last /\ sp.start >= 0 =>
              /\ chunker.text[boundary + 1] \in Whitespace => unmoved
              /\ (\A p \in (boundary + 1)..Len(chunker.text) :
                     chunker.text[p] \notin Whitespace) => unmoved

(***************************************************************************)
(* Parse failures: claim C19, checked under HSpec.                         *)
(***************************************************************************)
ParseFailures == {"fail", "html_fail", "pdf_fail"}

Extractions ==
    SelectSeq(calls, LAMBDA c : c.op \in {"extract_text", "extract_from_url"})

(* C19 as stated: when the parser of a supported source fails, extraction  *)
(* yields a failure and not text, the handler sends the extraction or      *)
(* fetch failure notice for that source, and nothing of it is embedded or  *)
(* submitted to the index.                                                 *)
C19_ParseFailureIsFailure ==
    cur.parse \in ParseFailures =>
        LET ext == Last(Extractions) IN
        /\ Falsy(ext.kind)
        /\ pc \notin {"embed", "upsert"}
        /\ \A c \in Range(calls) :
              c.item = ext.item =>
                  /\ c.op \notin {"create_embedding", "index_document"}
                  /\ IsPost(c) => c.kind \in {"extract_failed", "fetch_failed"}
        /\ \E c \in Range(calls) : c.item = ext.item /\ IsPost(c)

(***************************************************************************)
(* chunk_text: claim C21, checked under KSpec.                             *)
(***************************************************************************)
(* The first n characters of the chunk c, c[:n], and what follows, c[n:].  *)
FirstChars(c, n) == SubSeq(c, 1, n)

LastChars(c, n) == SubSeq(c, Len(c) - n + 1, Len(c))

DropChars(c, n) == SubSeq(c, n + 1, Len(c))

(* The first chunk followed by every later chunk less its first n chars.   *)
RECURSIVE Rejoin(_, _)
Rejoin(cs, n) ==
    IF Len(cs) <= 1 THEN (IF cs = <<>> THEN <<>> ELSE cs[1])
    ELSE Rejoin(SubSeq(cs, 1, Len(cs) - 1), n) \o DropChars(cs[Len(cs)], n)

(* C21: for 0 <= overlap < chunk_size and a text longer than chunk_size,   *)
(* each chunk starts overlap characters before the end of the chunk before *)
(* it, the last overlap characters of one chunk are the first of the next, *)
(* and the first chunk followed by the later chunks less their first       *)
(* overlap characters is the text.                                         *)
C21_OverlapAndRejoin ==
    LongText /\ 0 <= chunker.overlap /\ chunker.overlap < chunker.chunk_size =>
        /\ \A k \in 1..(Len(chunker.chunks) - 1) :
            /\ chunker.spans[k + 1].start = chunker.spans[k].end - chunker.overlap
            /\ Len(chunker.chunks[k]) >= chunker.overlap
            /\ Len(chunker.chunks[k + 1]) >= chunker.overlap
            /\ LastChars(chunker.chunks[k], chunker.overlap)
                  = FirstChars(chunker.chunks[k + 1], chunker.overlap)
        /\ chunker.pc = "done" =>
              Rejoin(chunker.chunks, chunker.overlap) = chunker.text

(* A text of blanks, newlines and other characters has been cut into three *)
(* chunks or more that overlap by one character.                           *)
C21_Witness ==
    /\ chunker.pc = "done"
    /\ chunker.overlap = 1
    /\ chunker.chunk_size > 1
    /\ Len(chunker.chunks) >= 3
    /\ Range(chunker.text) = ChunkChars

(***************************************************************************)
(* URL cleaning: claim C22, checked under HSpec.  The atom "," stands for  *)
(* any character a URL match can hold that is not a word character and not *)
(* one of / : . -                                                          *)
(***************************************************************************)
Fetches == SelectSeq(calls, LAMBDA c : c.op = "extract_from_url")

ContentLengths ==
    1..ExtraChars
    \cup (MaxTokens * CharsPerToken - ExtraChars)..(MaxTokens * CharsPerToken + ExtraChars)

ContentOf(n) == [from |-> 1, to |-> n]

(* len(text) *)
TextLen(text) == text.to - text.from + 1

(* text[:n] for 0 <= n <= len(text) *)
Prefix(text, n) == [from |-> text.from, to |-> text.from + n - 1]

DocTypes == {"pdf", "docx", "url"}

(* An embedding request that sends the text as it is. *)
EmbeddingInputWhole(text) == text

(* The text sent to the embedding model, openai_service.py:50-52 *)
EmbeddingInput(text) ==
    IF TextLen(text) > MaxTokens * CharsPerToken
    THEN Prefix(text, MaxTokens * CharsPerToken)
    ELSE text

(* index_document, its embedding stage (views.py:49-57), with the request  *)
(* create_embedding sends (openai_service.py:54-56).                       *)
TCreateEmbedding ==
    /\ pc = "embed"
    /\ \E r \in EmbedResults :
        LET called == Append(Append(calls,
                          Call("embeddings.create", <<EmbeddingInput(cur.content)>>, r)),
                          Call("create_embedding", <<cur.content>>, r))
        IN  IF Falsy(r)
            THEN /\ calls' = Append(called, Post("embedding_failed", cur.source))
                 /\ cur' = [cur EXCEPT !.ret = "False"]
                 /\ i' = i + 1
                 /\ pc' = cur.loop
            ELSE /\ calls' = called
                 /\ cur' = [cur EXCEPT !.embedding = r]
                 /\ pc' = "upsert"
                 /\ i' = i
    /\ UNCHANGED <<resp, urls, index>>
    /\ Frame

TInit ==
    /\ pc = "embed"
    /\ cur \in {[NoCur EXCEPT !.loop = "returned", !.content = ContentOf(n),
                   !.source = <<"N", "first">>, !.doc_type = t,
                   !.doc_id = <<"F", "first">>] :
                  n \in ContentLengths, t \in DocTypes}
    /\ i = 1
    /\ processed_events = <<>>
    /\ seen = 0
    /\ req = NoRequest
    /\ resp = NoResp
    /\ urls = <<>>
    /\ calls = <<>>
    /\ index = {}
    /\ wpc = <<>>
    /\ wreq = <<>>
    /\ handled = <<>>
    /\ chunker = NoChunker

TNext ==
    \/ TCreateEmbedding
    \/ IndexUpsert

TSpec == TInit /\ [][TNext]_vars

(***************************************************************************)
(* Truncation before embedding: claim C23, checked under TSpec.            *)
(***************************************************************************)
EmbeddingRequests == SelectSeq(calls, LAMBDA c : c.op = "embeddings.create")

(* C23: the text sent to the embedding model is the first                  *)
(* min(len(content), 32000) characters of the content, never more than     *)
(* 32000, and the document submitted to the index carries the whole        *)
(* content and the embedding made from that text.                          *)
C23_TruncatedForEmbeddingOnly ==
    /\ \A c \in Range(EmbeddingRequests) :
        LET sent == c.src[1]
            n == IF TextLen(cur.content) < 32000 THEN TextLen(cur.content)
                 ELSE 32000
        IN  /\ sent.from = cur.content.from
            /\ sent.to = sent.from + n - 1
            /\ TextLen(sent) <= 32000
    /\ \A d \in index :
        /\ d.content = cur.content
        /\ Len(EmbeddingRequests) = 1
        /\ d.embedding = EmbeddingRequests[1].kind
        /\ d.embedding = "vector"

(* A content of more than 32000 characters has been indexed. *)
C23_Witness ==
    /\ TextLen(cur.content) > 32000
    /\ \E d \in index : TextLen(d.content) > 32000
    /\ TextLen(EmbeddingRequests[1].src[1]) = 32000

(***************************************************************************)
(* Redelivery: event_callback deliveries of a few event ids, each served   *)
(* to its end (a notice, the except block, or an exception that leaves the *)
(* view) before the next arrives.  When a request arrives, the way the     *)
(* request before it ended is noted in handled, once per event id.         *)
(***************************************************************************)
RedeliveryEvents ==
    {[files |-> <<FileAt(1, "pdf")>>, text |-> <<>>],
     [files |-> <<>>, text |-> <<"M">>]}

RedeliveryPayloads ==
    {Payload(TRUE, TRUE, "event_callback", id, "app_mention", ev) :
        id \in 1..MaxEvents, ev \in RedeliveryEvents}
    \cup {Payload(TRUE, TRUE, "event_callback", id, "message", MentionOnly) :
        id \in 1..MaxEvents}

FailureNotices ==
    {"unsupported", "download_failed", "extract_failed", "embedding_failed",
     "index_failed", "empty_question", "error"}

(* How the delivery in req ended. *)
Outcome ==
    [event_id |-> req.event_id, event_type |-> req.event_type,
     status |-> resp.status, verdict |-> resp.verdict,
     failure_notice |-> \E c \in Range(Posts) : c.kind \in FailureNotices]

RReceive ==
    /\ pc = "idle"
    /\ \E p \in RedeliveryPayloads : req' = p
    /\ handled' =
          IF req = NoRequest \/ \E k \in DOMAIN handled :
                                    handled[k].event_id = req.event_id
          THEN handled
          ELSE Append(handled, Outcome)
    /\ pc' = "slack_events"
    /\ resp' = NoResp
    /\ i' = 0
    /\ urls' = <<>>
    /\ cur' = NoCur
    /\ calls' = <<>>
    /\ UNCHANGED <<processed_events, seen, index, wpc, wreq, chunker>>

RInit == Init

RNext ==
    \/ RReceive
    \/ SlackEvents
    \/ HandleAppMention
    \/ FileStep
    \/ DownloadFile
    \/ ExtractStep
    \/ CreateEmbedding
    \/ IndexUpsert
    \/ QueryQuestion
    \/ Return
    \/ DownloadFileRaises
    \/ PostMessageRaises
    \/ ExceptHandler

RSpec == RInit /\ [][RNext]_vars

(***************************************************************************)
(* Claim C24, checked under RSpec.                                         *)
(***************************************************************************)
(* The first delivery of the id ended in a failure notice or in the except *)
(* block, or was not an app_mention.                                       *)
EndedBadly(h) ==
    \/ h.failure_notice
    \/ h.verdict \in {"error_reported", "exception_propagated"}
    \/ h.event_type # "app_mention"

RecordedAndKept ==
    /\ pc \notin {"idle", "slack_events"} =>
          req.event_id \in Range(processed_events)
    /\ \A k \in DOMAIN handled :
          handled[k].event_id \in Range(processed_events)
    /\ \A id \in Range(processed_events) : id \in Range(processed_events')
    /\ DedupStep /\ (\E k \in DOMAIN handled :
                        handled[k].event_id = req.event_id /\ EndedBadly(handled[k])) =>
          Skipped /\ processed_events' = processed_events

(* C24: an event id is in processed_events before the event is handled and *)
(* no step removes it because handling failed; a redelivery of an id whose *)
(* first delivery ended in a failure notice or in the except block, or was *)
(* not an app_mention, is skipped while the id is cached.                  *)
C24_RecordedAndKept == [][RecordedAndKept]_vars

(* The first delivery of an app_mention ended with an exception that left  *)
(* the view; its redelivery has been skipped.                              *)
C24_Witness ==
    /\ resp = [status |-> 200, verdict |-> "duplicate"]
    /\ \E k \in DOMAIN handled :
        /\ handled[k].event_id = req.event_id
        /\ handled[k].verdict = "exception_propagated"
        /\ handled[k].status = 500

(***************************************************************************)
(* Empty extractions: claim C25, checked under HSpec.                      *)
(***************************************************************************)
EmptyOutcomes == {"empty", "pdf_empty"}

(* C25: a file or URL whose extraction works and gives an empty text is a  *)
(* failed item: it gets the extraction or fetch failure notice, and        *)
(* neither create_embedding nor the index is called for it.                *)
C25_EmptyIsFailure ==
    cur.parse \in EmptyOutcomes =>
        LET ext == Last(Extractions) IN
        /\ ext.kind = ""
        /\ pc \notin {"embed", "upsert"}
        /\ SelectSeq(calls, LAMBDA c : c.item = ext.item /\ c.op # "download_file")
              = <<ext, [op |-> "post_message", item |-> ext.item,
                        kind |-> IF ext.op = "extract_text" THEN "extract_failed"
                                 ELSE "fetch_failed",
                        src |-> IF ext.op = "extract_text"
                                THEN req.event.files[ext.item].name ELSE ext.src]>>

(* A PDF attachment without text has been reported as failed, and the      *)
(* attachment after it has been indexed.                                   *)
C25_Witness ==
    /\ Done
    /\ Len(req.event.files) = 2
    /\ \E c \in Range(calls) :
          c.op = "extract_text" /\ c.item = 1 /\ c.kind = "" /\ c.src = <<"pdf">>
    /\ Posts[1].kind = "extract_failed"
    /\ Posts[2].kind = "indexed"

(***************************************************************************)
(* Claim C26, checked under HSpec, where no collaborator raises.           *)
(***************************************************************************)
(* C26 as stated: every app_mention that handle_app_mention has served     *)
(* without an exception has been answered with one notification or more,   *)
(* on every route, also when the text holds "http://" and no URL is found  *)
(* in it.                                                                  *)
C26_AlwaysNotified == Done => Posts # <<>>

(***************************************************************************)
(* Requests answered before the dedup step: claim C27, checked under Spec. *)
(***************************************************************************)
(* The answer slack_events gives to a request it does not take as an       *)
(* event_callback.                                                         *)
EarlyAnswer ==
    IF ~req.sig_ok THEN [status |-> 403, verdict |-> "invalid_signature"]
    ELSE IF ~req.json_ok THEN [status |-> 400, verdict |-> "invalid_json"]
    ELSE IF req.type = "url_verification" THEN [status |-> 200, verdict |-> "challenge"]
    ELSE [status |-> 200, verdict |-> "unsupported_type"]

AnsweredEarly ==
    pc = "slack_events"
        /\ (~req.sig_ok \/ ~req.json_ok \/ req.type # "event_callback") =>
            /\ processed_events' = processed_events
            /\ resp' = EarlyAnswer
            /\ pc' = "idle"
            /\ calls' = <<>>

(* C27: a request with an invalid signature (403), with invalid JSON       *)
(* (400), a url_verification challenge, or of a type other than            *)
(* event_callback leaves processed_events as it was and is not handled,    *)
(* with or without an event id in its payload.                             *)
C27_EarlyAnswersLeaveCache == [][AnsweredEarly]_vars

(* A payload of another type that carries an event id has been answered;   *)
(* the id is not in the cache, which holds other ids.                      *)
C27_Witness ==
    /\ pc = "idle"
    /\ resp = [status |-> 200, verdict |-> "unsupported_type"]
    /\ req.event_id > 0
    /\ processed_events # <<>>
    /\ req.event_id \notin Range(processed_events)

====
